---- MODULE Spec2Model ----
(***************************************************************************)
(* Event management API: the event store, the attendee store and the      *)
(* business rules of EventService (app/services.py) over the two          *)
(* repositories (app/crud/*.py).  A request handler is a process; every   *)
(* await on the database session is one step, so concurrent requests      *)
(* interleave at the granularity of the individual store calls.           *)
(***************************************************************************)
EXTENDS Integers, Sequences, FiniteSets, TLC

(* ------------------------------ bounds -------------------------------- *)
NumProcs == 2          \* concurrent request handlers
MaxEvents == 1         \* rows the events table may hold
MaxAttendees == 3      \* rows the attendees table may hold
MaxNow == 2            \* last value of the wall clock
MaxWall == 2           \* largest wall-clock reading of an input datetime
MaxListed == 2         \* rows of the events table the read handlers see
MaxSkip == 1           \* largest skip query parameter
MaxLimit == 2          \* largest limit query parameter

Procs == 1..NumProcs

(* ------------------------- datetime arithmetic ------------------------ *)
\* An aware datetime is a wall-clock reading with the UTC offset of its zone.
UTC == 0
Offsets == {0, 1}
DateTimes == [wall : 0..MaxWall, off : Offsets]

\* The instant an aware datetime denotes (wall clock minus UTC offset).
utc_instant(dt) == dt.wall - dt.off

\* datetime.astimezone(tz): same instant, wall clock of the target zone.
astimezone(dt, tz) == [wall |-> utc_instant(dt) + tz, off |-> tz]

\* Aware datetimes compare by instant.
dt_lt(a, b) == utc_instant(a) < utc_instant(b)
dt_ge(a, b) == utc_instant(a) >= utc_instant(b)

(* ------------------------------ inputs -------------------------------- *)
EventNames == {"Launch"}
Locations == {"Pune"}
Capacities == {0, 1, 2}
AttendeeNames == {"Ann"}
Emails == {"a@x.com", "b@x.com", "c@x.com"}
EventIdInputs == 1..MaxEvents

\* EventCreate payloads as the service receives them.
EventSpecs ==
    [name : EventNames, location : Locations, start_time : DateTimes,
     end_time : DateTimes, max_capacity : Capacities]

\* The payloads used to populate the store while registrations run.
SeedSpecs ==
    {s \in EventSpecs : /\ s.start_time = [wall |-> 0, off |-> 0]
                        /\ s.end_time = [wall |-> 1, off |-> 0]
                        /\ s.max_capacity \in {1, 2}}

Requests == [event_id : EventIdInputs, name : AttendeeNames, email : Emails]
NoRequest == [event_id |-> 0, name |-> "", email |-> ""]

\* Query parameters of the read handlers.  NoTimezone is the absent (None)
\* target_timezone; tz_database gives the UTC offset of the names pytz knows.
ViewEventIds == 1..MaxListed
Skips == 0..MaxSkip
Limits == 1..MaxLimit
NoTimezone == "None"
tz_database == [n \in {"UTC", "Asia/Kolkata"} |->
                   IF n = "UTC" THEN UTC ELSE 1]
TimezoneNames == {NoTimezone, "UTC", "Asia/Kolkata", "Mars/Phobos"}

VARIABLES
    clock,                   \* datetime.now(timezone.utc), as an instant
    events,                  \* the events table, in id order
    attendees,               \* the attendees table, in id order
    create_response,         \* outcome of the last create_new_event call
    pc,                      \* position of each register request
    req,                     \* (event_id, attendee_data) of each request
    event,                   \* local `event` of each request
    result,                  \* what the call returned or raised
    trace,                   \* store calls and clock reads made by the call
    call_start,              \* what held of the stores when the call was made
    view_response,           \* request and response of the last read handler
    session_event            \* the Event object get_event_by_id loaded, as
                             \* the handler left it in its session

vars == <<clock, events, attendees, create_response, pc, req, event,
          result, trace, call_start, view_response, session_event>>

procVars == <<pc, req, event, result, trace, call_start>>

viewVars == <<view_response, session_event>>

now == [wall |-> clock, off |-> UTC]

(* --------------------------- EventRepository -------------------------- *)
\* The payload's datetimes stored as given, without the conversion to UTC.
NewEventRow_asGiven(event_data) ==
    [id |-> Len(events) + 1,
     name |-> event_data.name,
     location |-> event_data.location,
     start_time |-> event_data.start_time,
     end_time |-> event_data.end_time,
     max_capacity |-> event_data.max_capacity,
     created_at |-> now]

\* create_event: normalise both times to UTC and insert the row.
NewEventRow(event_data) ==
    [id |-> Len(events) + 1,
     name |-> event_data.name,
     location |-> event_data.location,
     start_time |-> astimezone(event_data.start_time, UTC),
     end_time |-> astimezone(event_data.end_time, UTC),
     max_capacity |-> event_data.max_capacity,
     created_at |-> now]

\* get_event_by_id: the rows with that id (scalar_one_or_none).
get_event_by_id(event_id) ==
    LET Match(e) == e.id = event_id IN SelectSeq(events, Match)

\* get_event_attendee_count: COUNT(attendees.id) WHERE event_id = :id.
get_event_attendee_count(event_id) ==
    LET Match(a) == a.event_id = event_id IN Len(SelectSeq(attendees, Match))

(* -------------------------- AttendeeRepository ------------------------ *)
\* get_attendee_by_email_and_event: the rows the SELECT returns.
get_attendee_by_email_and_event(event_id, email) ==
    LET Match(a) == a.event_id = event_id /\ a.email = email
    IN SelectSeq(attendees, Match)

\* create_attendee: insert the row; the table has no unique constraint.
NewAttendeeRow(event_id, attendee_data) ==
    [id |-> Len(attendees) + 1,
     event_id |-> event_id,
     name |-> attendee_data.name,
     email |-> attendee_data.email,
     registered_at |-> now]

(* ------------------ EventService.create_new_event --------------------- *)
\* Inclusive comparison: a start equal to now counts as past.
StartsInPast_inclusive(event_data, current) ==
    ~dt_lt(current, astimezone(event_data.start_time, UTC))

StartsInPast(event_data, current) ==
    dt_lt(astimezone(event_data.start_time, UTC), current)

\* Strict comparison: equal start and end pass the check.
StartNotBeforeEnd_strict(event_data) ==
    dt_lt(event_data.end_time, event_data.start_time)

StartNotBeforeEnd(event_data) ==
    dt_ge(event_data.start_time, event_data.end_time)

\* Only negative capacities refused: capacity 0 passes the check.
CapacityNotPositive_negativeOnly(event_data) == event_data.max_capacity < 0

CapacityNotPositive(event_data) == event_data.max_capacity <= 0

\* The exception classes the service module defines for its business rules.
ServiceExceptions ==
    {"EventNotFoundError", "EventCapacityExceededError",
     "DuplicateRegistrationError", "InvalidEventTimeError"}

\* The exception create_new_event raises for a payload, "ok" if none.
CreateOutcome(event_data, current) ==
    IF StartsInPast(event_data, current)
    THEN [kind |-> "InvalidEventTimeError", detail |-> "start in the past"]
    ELSE IF StartNotBeforeEnd(event_data)
    THEN [kind |-> "InvalidEventTimeError", detail |-> "start not before end"]
    ELSE IF CapacityNotPositive(event_data)
    THEN [kind |-> "ValueError", detail |-> "capacity not positive"]
    ELSE [kind |-> "ok", detail |-> ""]

CreateNewEvent(event_data) ==
    /\ Len(events) < MaxEvents
    /\ LET outcome == CreateOutcome(event_data, now)
       IN /\ create_response' =
                <<[event_data |-> event_data, kind |-> outcome.kind,
                   detail |-> outcome.detail]>>
          /\ events' = IF outcome.kind = "ok"
                       THEN Append(events, NewEventRow(event_data))
                       ELSE events
    /\ UNCHANGED <<clock, attendees>>
    /\ UNCHANGED procVars
    /\ UNCHANGED viewVars

(* -------------- EventService.register_attendee_for_event -------------- *)
InFlight == {p \in Procs : pc[p] \notin {"idle", "done"}}

\* Off by one: lets one registration past a full event.
CapacityReached_offByOne(count, ev) == count > ev.max_capacity

CapacityReached(count, ev) == count >= ev.max_capacity

\* Comparison the wrong way round: an ended event passes the check.
HasEnded_reversed(ev, current) ==
    dt_lt(current, astimezone(ev.end_time, UTC))

HasEnded(ev, current) == dt_lt(astimezone(ev.end_time, UTC), current)

\* Whether, for a request, the event has ended and the email is registered.
StoreView(r) ==
    [ended |-> \E i \in 1..Len(events) :
                   /\ events[i].id = r.event_id
                   /\ events[i].end_time.wall - events[i].end_time.off < clock,
     registered |-> \E i \in 1..Len(attendees) :
                        /\ attendees[i].event_id = r.event_id
                        /\ attendees[i].email = r.email]

Finish(p, outcome) ==
    /\ pc' = [pc EXCEPT ![p] = "done"]
    /\ result' = [result EXCEPT ![p] = outcome]

\* The handler is entered with a path parameter and a validated body.
StartRegister(p, r) ==
    /\ pc[p] \in {"idle", "done"}
    /\ Len(attendees) + Cardinality(InFlight) < MaxAttendees
    /\ pc' = [pc EXCEPT ![p] = "get_event"]
    /\ req' = [req EXCEPT ![p] = r]
    /\ event' = [event EXCEPT ![p] = <<>>]
    /\ result' = [result EXCEPT ![p] = "none"]
    /\ trace' = [trace EXCEPT ![p] = <<>>]
    /\ call_start' = [call_start EXCEPT ![p] = StoreView(r)]
    /\ UNCHANGED <<clock, events, attendees, create_response>>
    /\ UNCHANGED viewVars

\* The duplicate lookup issued ahead of the existence check.
GetEvent_lookupFirst(p) ==
    /\ pc[p] = "get_event"
    /\ LET rows == get_event_by_id(req[p].event_id)
       IN /\ event' = [event EXCEPT ![p] = rows]
          /\ IF rows = <<>>
             THEN Finish(p, "EventNotFoundError")
             ELSE /\ pc' = [pc EXCEPT ![p] = "find_attendee"]
                  /\ UNCHANGED result
    /\ trace' = [trace EXCEPT
                     ![p] = @ \o <<"get_attendee_by_email_and_event",
                                   "get_event_by_id">>]
    /\ UNCHANGED <<clock, events, attendees, create_response, req,
                   call_start>>
    /\ UNCHANGED viewVars

\* event = await self.get_event(event_id)
GetEvent(p) ==
    /\ pc[p] = "get_event"
    /\ LET rows == get_event_by_id(req[p].event_id)
       IN /\ event' = [event EXCEPT ![p] = rows]
          /\ IF rows = <<>>
             THEN Finish(p, "EventNotFoundError")
             ELSE /\ pc' = [pc EXCEPT ![p] = "find_attendee"]
                  /\ UNCHANGED result
    /\ trace' = [trace EXCEPT ![p] = Append(@, "get_event_by_id")]
    /\ UNCHANGED <<clock, events, attendees, create_response, req,
                   call_start>>
    /\ UNCHANGED viewVars

\* existing_attendee = await ...get_attendee_by_email_and_event(...)
FindAttendee(p) ==
    /\ pc[p] = "find_attendee"
    /\ LET rows == get_attendee_by_email_and_event(req[p].event_id,
                                                   req[p].email)
       IN IF Len(rows) > 1
          THEN Finish(p, "MultipleResultsFound")
          ELSE IF Len(rows) = 1
          THEN Finish(p, "DuplicateRegistrationError")
          ELSE /\ pc' = [pc EXCEPT ![p] = "count"]
               /\ UNCHANGED result
    /\ trace' = [trace EXCEPT
                     ![p] = Append(@, "get_attendee_by_email_and_event")]
    /\ UNCHANGED <<clock, events, attendees, create_response, req, event,
                   call_start>>
    /\ UNCHANGED viewVars

\* The ended check made ahead of the capacity check.
CountAttendees_endedFirst(p) ==
    /\ pc[p] = "count"
    /\ LET count == get_event_attendee_count(req[p].event_id)
       IN IF HasEnded(event[p][1], now)
          THEN Finish(p, "InvalidEventTimeError")
          ELSE IF CapacityReached(count, event[p][1])
          THEN Finish(p, "EventCapacityExceededError")
          ELSE /\ pc' = [pc EXCEPT ![p] = "create_attendee"]
               /\ UNCHANGED result
    /\ trace' = [trace EXCEPT ![p] = Append(@, "get_event_attendee_count")]
    /\ UNCHANGED <<clock, events, attendees, create_response, req, event,
                   call_start>>
    /\ UNCHANGED viewVars

\* current_attendee_count = await ...get_event_attendee_count(event_id)
CountAttendees(p) ==
    /\ pc[p] = "count"
    /\ LET count == get_event_attendee_count(req[p].event_id)
       IN IF CapacityReached(count, event[p][1])
          THEN Finish(p, "EventCapacityExceededError")
          ELSE /\ pc' = [pc EXCEPT ![p] = "create_attendee"]
               /\ UNCHANGED result
    /\ trace' = [trace EXCEPT ![p] = Append(@, "get_event_attendee_count")]
    /\ UNCHANGED <<clock, events, attendees, create_response, req, event,
                   call_start>>
    /\ UNCHANGED viewVars

\* The row inserted ahead of the ended check.
CreateAttendee_writeFirst(p) ==
    /\ pc[p] = "create_attendee"
    /\ attendees' = Append(attendees,
                           NewAttendeeRow(req[p].event_id, req[p]))
    /\ IF HasEnded(event[p][1], now)
       THEN /\ Finish(p, "InvalidEventTimeError")
            /\ trace' = [trace EXCEPT ![p] = Append(@, "now")]
       ELSE /\ Finish(p, "ok")
            /\ trace' = [trace EXCEPT
                             ![p] = @ \o <<"now", "create_attendee">>]
    /\ UNCHANGED <<clock, events, create_response, req, event, call_start>>
    /\ UNCHANGED viewVars

\* The ended check against a fresh datetime.now(timezone.utc), then
\* return await self.attendee_repo.create_attendee(event_id, attendee_data)
CreateAttendee(p) ==
    /\ pc[p] = "create_attendee"
    /\ IF HasEnded(event[p][1], now)
       THEN /\ Finish(p, "InvalidEventTimeError")
            /\ trace' = [trace EXCEPT ![p] = Append(@, "now")]
            /\ UNCHANGED attendees
       ELSE /\ Finish(p, "ok")
            /\ trace' = [trace EXCEPT
                             ![p] = @ \o <<"now", "create_attendee">>]
            /\ attendees' = Append(attendees,
                                   NewAttendeeRow(req[p].event_id, req[p]))
    /\ UNCHANGED <<clock, events, create_response, req, event, call_start>>
    /\ UNCHANGED viewVars

(* ------------------- main.register_attendee (boundary) ---------------- *)
\* The handler without its except clause for DuplicateRegistrationError.
register_attendee_noDuplicateClause(outcome) ==
    CASE outcome = "ok" -> 201
      [] outcome = "EventNotFoundError" -> 404
      [] outcome = "EventCapacityExceededError" -> 409
      [] outcome = "InvalidEventTimeError" -> 400
      [] OTHER -> 500

\* Status of the response for what the service returned or raised: 201 from
\* the decorator, one except clause per service exception, and the
\* framework's 500 for an exception no clause catches.
register_attendee(outcome) ==
    CASE outcome = "ok" -> 201
      [] outcome = "EventNotFoundError" -> 404
      [] outcome = "EventCapacityExceededError" -> 409
      [] outcome = "DuplicateRegistrationError" -> 409
      [] outcome = "InvalidEventTimeError" -> 400
      [] OTHER -> 500

(* --------------------------- read handlers ---------------------------- *)
\* ORDER BY: the rows in ascending order of their keys (keys[i] is the key
\* of rows[i]); rows with equal keys come back in whichever order the
\* database picks.
OrderBy(rows, keys) ==
    {[i \in 1..Len(rows) |-> rows[f[i]]] :
         f \in {g \in [1..Len(rows) -> 1..Len(rows)] :
                    /\ \A i, j \in 1..Len(rows) : g[i] = g[j] => i = j
                    /\ \A i, j \in 1..Len(rows) :
                           i < j => keys[g[i]] <= keys[g[j]]}}

\* OFFSET skip LIMIT limit over an ordered result.
OffsetLimit(rows, skip, limit) ==
    SubSeq(rows, skip + 1,
           IF skip + limit < Len(rows) THEN skip + limit ELSE Len(rows))

\* Strict filter: an event ending exactly now is left out.
get_all_upcoming_events_strict(current_time_utc) ==
    LET Upcoming(e) == dt_lt(current_time_utc, e.end_time)
        rows == SelectSeq(events, Upcoming)
    IN OrderBy(rows, [i \in 1..Len(rows) |-> utc_instant(rows[i].start_time)])

\* get_all_upcoming_events: WHERE end_time >= now ORDER BY start_time.
get_all_upcoming_events(current_time_utc) ==
    LET Upcoming(e) == dt_ge(e.end_time, current_time_utc)
        rows == SelectSeq(events, Upcoming)
    IN OrderBy(rows, [i \in 1..Len(rows) |-> utc_instant(rows[i].start_time)])

\* The offset dropped: every page starts at the first attendee.
get_attendees_for_event_noOffset(event_id, skip, limit) ==
    LET Match(a) == a.event_id = event_id
        rows == SelectSeq(attendees, Match)
    IN {OffsetLimit(ordered, 0, limit) :
            ordered \in OrderBy(rows,
                                [i \in 1..Len(rows) |->
                                     utc_instant(rows[i].registered_at)])}

\* get_attendees_for_event: WHERE event_id = :id ORDER BY registered_at
\* LIMIT :limit OFFSET :skip.
get_attendees_for_event(event_id, skip, limit) ==
    LET Match(a) == a.event_id = event_id
        rows == SelectSeq(attendees, Match)
    IN {OffsetLimit(ordered, skip, limit) :
            ordered \in OrderBy(rows,
                                [i \in 1..Len(rows) |->
                                     utc_instant(rows[i].registered_at)])}

\* EventResponse.model_validate(event): the object's attributes, and the
\* schema's default for current_attendees, which the object does not have.
EventResponse(ev) ==
    [id |-> ev.id, name |-> ev.name, location |-> ev.location,
     start_time |-> ev.start_time, end_time |-> ev.end_time,
     max_capacity |-> ev.max_capacity, created_at |-> ev.created_at,
     current_attendees |-> 0]

\* AttendeeResponse.model_validate(attendee).
AttendeeResponse(a) ==
    [id |-> a.id, event_id |-> a.event_id, name |-> a.name,
     email |-> a.email, registered_at |-> a.registered_at]

\* convert_event_timezone: ValueError for a name pytz does not know;
\* otherwise start_time and end_time of the object passed in are assigned
\* their readings in the target zone and the response is built from it.
\* `event` is the object as the call leaves it.
convert_event_timezone(ev, target_timezone_name) ==
    IF target_timezone_name \notin DOMAIN tz_database
    THEN [kind |-> "ValueError", event |-> ev, response |-> <<>>]
    ELSE LET target_tz == tz_database[target_timezone_name]
             converted == [ev EXCEPT
                              !.start_time = astimezone(@, target_tz),
                              !.end_time = astimezone(@, target_tz)]
         IN [kind |-> "ok", event |-> converted,
             response |-> <<EventResponse(converted)>>]

\* What a read handler was asked and what it answered; current_time_utc is
\* the clock reading of get_all_upcoming_events (0 for the handlers that
\* read no clock).
Responded(op, event_id, target_timezone, skip, limit, at, status, body) ==
    view_response' =
        <<[op |-> op, event_id |-> event_id,
           target_timezone |-> target_timezone, skip |-> skip,
           limit |-> limit, current_time_utc |-> at,
           status |-> status, body |-> body]>>

\* GET /events
ListEvents ==
    /\ \E rows \in get_all_upcoming_events(now) :
           Responded("list_events", 0, NoTimezone, 0, 0, clock, 200,
                     [i \in 1..Len(rows) |-> EventResponse(rows[i])])
    /\ UNCHANGED <<clock, events, attendees, create_response, session_event>>
    /\ UNCHANGED procVars

\* The converted object flushed to the table when the request ends.
GetEventById_commit(event_id, target_timezone) ==
    /\ LET rows == get_event_by_id(event_id)
       IN IF rows = <<>>
          THEN /\ Responded("get_event_by_id", event_id, target_timezone,
                            0, 0, 0, 404, <<>>)
               /\ session_event' = <<>>
               /\ UNCHANGED events
          ELSE IF target_timezone = NoTimezone
          THEN /\ Responded("get_event_by_id", event_id, target_timezone,
                            0, 0, 0, 200, <<EventResponse(rows[1])>>)
               /\ session_event' = rows
               /\ UNCHANGED events
          ELSE LET converted ==
                       convert_event_timezone(rows[1], target_timezone)
               IN /\ Responded("get_event_by_id", event_id, target_timezone,
                               0, 0, 0,
                               IF converted.kind = "ValueError"
                               THEN 400 ELSE 200,
                               converted.response)
                  /\ session_event' = <<converted.event>>
                  /\ events' = [i \in 1..Len(events) |->
                                    IF events[i].id = event_id
                                    THEN converted.event ELSE events[i]]
    /\ UNCHANGED <<clock, attendees, create_response>>
    /\ UNCHANGED procVars

\* GET /events/{event_id}?target_timezone=...
GetEventById(event_id, target_timezone) ==
    /\ LET rows == get_event_by_id(event_id)
       IN IF rows = <<>>
          THEN /\ Responded("get_event_by_id", event_id, target_timezone,
                            0, 0, 0, 404, <<>>)
               /\ session_event' = <<>>
          ELSE IF target_timezone = NoTimezone
          THEN /\ Responded("get_event_by_id", event_id, target_timezone,
                            0, 0, 0, 200, <<EventResponse(rows[1])>>)
               /\ session_event' = rows
          ELSE LET converted ==
                       convert_event_timezone(rows[1], target_timezone)
               IN /\ Responded("get_event_by_id", event_id, target_timezone,
                               0, 0, 0,
                               IF converted.kind = "ValueError"
                               THEN 400 ELSE 200,
                               converted.response)
                  /\ session_event' = <<converted.event>>
    /\ UNCHANGED <<clock, events, attendees, create_response>>
    /\ UNCHANGED procVars

\* GET /events/{event_id}/attendees?skip=...&limit=...
ListAttendees(event_id, skip, limit) ==
    /\ IF get_event_by_id(event_id) = <<>>
       THEN Responded("list_attendees_for_event", event_id, NoTimezone,
                      skip, limit, 0, 404, <<>>)
       ELSE \E rows \in get_attendees_for_event(event_id, skip, limit) :
                Responded("list_attendees_for_event", event_id, NoTimezone,
                          skip, limit, 0, 200,
                          [i \in 1..Len(rows) |-> AttendeeResponse(rows[i])])
    /\ UNCHANGED <<clock, events, attendees, create_response, session_event>>
    /\ UNCHANGED procVars

(* ------------------------------- clock -------------------------------- *)
Tick ==
    /\ clock < MaxNow
    /\ clock' = clock + 1
    /\ UNCHANGED <<events, attendees, create_response>>
    /\ UNCHANGED procVars
    /\ UNCHANGED viewVars

(* --------------------------- specifications --------------------------- *)
Init ==
    /\ clock = 0
    /\ events = <<>>
    /\ attendees = <<>>
    /\ create_response = <<>>
    /\ pc = [p \in Procs |-> "idle"]
    /\ req = [p \in Procs |-> NoRequest]
    /\ event = [p \in Procs |-> <<>>]
    /\ result = [p \in Procs |-> "none"]
    /\ trace = [p \in Procs |-> <<>>]
    /\ call_start = [p \in Procs |-> [ended |-> FALSE, registered |-> FALSE]]
    /\ view_response = <<>>
    /\ session_event = <<>>

SeedEvent == \E event_data \in SeedSpecs : CreateNewEvent(event_data)
Register == \E p \in Procs, r \in Requests : StartRegister(p, r)
Step ==
    \E p \in Procs :
        \/ GetEvent(p)
        \/ FindAttendee(p)
        \/ CountAttendees(p)
        \/ CreateAttendee(p)

\* Concurrent requests against one store.
Next == SeedEvent \/ Register \/ Step \/ Tick

Spec == Init /\ [][Next]_vars

\* One request at a time: a call is made only when no other is in flight.
RegisterAlone ==
    \E p \in Procs, r \in Requests : InFlight = {} /\ StartRegister(p, r)

NextSeq == SeedEvent \/ RegisterAlone \/ Step \/ Tick

SpecSeq == Init /\ [][NextSeq]_vars

\* Event creation alone, over every payload.
SubmitEvent == \E event_data \in EventSpecs : CreateNewEvent(event_data)

NextCreate == SubmitEvent \/ Tick

SpecCreate == Init /\ [][NextCreate]_vars

\* The read handlers over stores filled by earlier requests: each table is
\* one that a run of create and register requests leaves behind.
StoredEvent(id, times, capacity) ==
    [id |-> id, name |-> "Launch", location |-> "Pune",
     start_time |-> [wall |-> times[1], off |-> UTC],
     end_time |-> [wall |-> times[2], off |-> UTC],
     max_capacity |-> capacity,
     created_at |-> [wall |-> 0, off |-> UTC]]

StoredAttendee(id, event_id, registered) ==
    [id |-> id, event_id |-> event_id, name |-> "Ann",
     email |-> IF id % 3 = 1 THEN "a@x.com"
               ELSE IF id % 3 = 2 THEN "b@x.com" ELSE "c@x.com",
     registered_at |-> [wall |-> registered, off |-> UTC]]

StoredTimes == {t \in (0..MaxWall) \X (0..MaxWall) : t[1] < t[2]}

\* Events created at clock 0 with room for every attendee; attendees with
\* different emails per event, registered in id order, none after the end of
\* its event.
InitView ==
    /\ clock \in 0..MaxNow
    /\ \E n \in 0..MaxListed :
         /\ \E t \in [1..n -> StoredTimes] :
                events = [i \in 1..n |-> StoredEvent(i, t[i], MaxAttendees)]
         /\ \E m \in 0..MaxAttendees :
              \E a \in [1..m -> (1..n) \X (0..MaxNow)] :
                  /\ attendees =
                         [i \in 1..m |-> StoredAttendee(i, a[i][1], a[i][2])]
                  /\ \A i, j \in 1..m :
                         /\ i < j => a[i][2] <= a[j][2]
                         /\ ( /\ attendees[i].event_id = attendees[j].event_id
                              /\ attendees[i].email = attendees[j].email )
                            => i = j
                  /\ \A i \in 1..m :
                         /\ a[i][2] <= clock
                         /\ a[i][2] <= events[a[i][1]].end_time.wall
    /\ create_response = <<>>
    /\ pc = [p \in Procs |-> "idle"]
    /\ req = [p \in Procs |-> NoRequest]
    /\ event = [p \in Procs |-> <<>>]
    /\ result = [p \in Procs |-> "none"]
    /\ trace = [p \in Procs |-> <<>>]
    /\ call_start = [p \in Procs |-> [ended |-> FALSE, registered |-> FALSE]]
    /\ view_response = <<>>
    /\ session_event = <<>>

GetOne ==
    \E event_id \in ViewEventIds, target_timezone \in TimezoneNames :
        GetEventById(event_id, target_timezone)

ListPage ==
    \E event_id \in ViewEventIds, skip \in Skips, limit \in Limits :
        ListAttendees(event_id, skip, limit)

NextView == ListEvents \/ GetOne \/ ListPage \/ Tick

SpecView == InitView /\ [][NextView]_vars

\* Every kind of request against one store, one register call at a time:
\* payloads with a start in zone +1, an end before or after it and every
\* capacity.
ApiSpecs ==
    {s \in EventSpecs : /\ s.start_time = [wall |-> 1, off |-> 1]
                        /\ s.end_time.off = UTC
                        /\ s.end_time.wall \in {0, 1}}

SubmitApi == \E event_data \in ApiSpecs : CreateNewEvent(event_data)

RegisterOne == \E r \in Requests : InFlight = {} /\ StartRegister(1, r)

NextApi ==
    SubmitApi \/ RegisterOne \/ Step \/ Tick \/ ListEvents \/ GetOne
        \/ ListPage

SpecApi == Init /\ [][NextApi]_vars

(* ----------------------------- properties ----------------------------- *)
EventIds == {events[i].id : i \in 1..Len(events)}
EventRow(id) == CHOOSE e \in {events[i] : i \in 1..Len(events)} : e.id = id
RowsOf(id) == {i \in 1..Len(attendees) : attendees[i].event_id = id}
RowsWith(id, email) == {i \in RowsOf(id) : attendees[i].email = email}
EndInstant(e) == e.end_time.wall - e.end_time.off
Done(p) == pc[p] = "done"
Succeeded == {p \in Procs : Done(p) /\ result[p] = "ok"}

\* All handlers have answered a call that found event id, with distinct
\* emails, and every attendee of the event comes from these calls.
BatchOn(id) ==
    /\ \A p \in Procs : Done(p) /\ req[p].event_id = id /\ event[p] # <<>>
    /\ \A p, q \in Procs : p # q => req[p].email # req[q].email
    /\ Cardinality(RowsOf(id)) = Cardinality(Succeeded)

\* C1: K concurrent registrations with distinct emails against a live event
\* of capacity M < K end with exactly M successes and K-M
\* EventCapacityExceededError, and no event whose attendees have distinct
\* emails ever holds more of them than its max_capacity.
C1_NoOvershoot ==
    \A id \in EventIds :
        /\ (\A i, j \in RowsOf(id) :
                attendees[i].email = attendees[j].email => i = j)
           => Cardinality(RowsOf(id)) <= EventRow(id).max_capacity
        /\ ( /\ BatchOn(id)
             /\ EventRow(id).max_capacity < NumProcs
             /\ EndInstant(EventRow(id)) >= clock )
           => /\ Cardinality(Succeeded) = EventRow(id).max_capacity
              /\ \A p \in Procs \ Succeeded :
                     result[p] = "EventCapacityExceededError"

\* C2: the attendees table never holds two rows with the same
\* (event_id, email).
C2_UniqueEmailPerEvent ==
    \A i, j \in 1..Len(attendees) :
        ( /\ attendees[i].event_id = attendees[j].event_id
          /\ attendees[i].email = attendees[j].email ) => i = j

\* C3: with one request at a time, a call with a new email for a live event
\* succeeds and adds one attendee while the event holds fewer than
\* max_capacity attendees, and once it holds max_capacity the call raises
\* EventCapacityExceededError and adds nothing.
C3_SequentialCapacity ==
    [][\A p \in Procs :
          ( /\ pc[p] # "done"
            /\ pc'[p] = "done"
            /\ req[p].event_id \in EventIds
            /\ EndInstant(EventRow(req[p].event_id)) >= clock
            /\ RowsWith(req[p].event_id, req[p].email) = {} )
          => IF Cardinality(RowsOf(req[p].event_id))
                    < EventRow(req[p].event_id).max_capacity
             THEN /\ result'[p] = "ok"
                  /\ Len(attendees') = Len(attendees) + 1
                  /\ attendees'[Len(attendees')].event_id = req[p].event_id
                  /\ attendees'[Len(attendees')].email = req[p].email
             ELSE /\ result'[p] = "EventCapacityExceededError"
                  /\ attendees' = attendees]_vars

\* An event of capacity 2 holds two attendees with distinct emails and a
\* third email has just been refused.
C3_Witness ==
    \E p \in Procs :
        /\ Done(p)
        /\ result[p] = "EventCapacityExceededError"
        /\ req[p].event_id \in EventIds
        /\ EventRow(req[p].event_id).max_capacity = 2
        /\ Cardinality(RowsOf(req[p].event_id)) = 2
        /\ Cardinality({attendees[i].email : i \in RowsOf(req[p].event_id)}) = 2
        /\ RowsWith(req[p].event_id, req[p].email) = {}
        /\ EndInstant(EventRow(req[p].event_id)) >= clock

\* C4: a call made for an (event, email) that is already registered raises
\* DuplicateRegistrationError, whether or not the event is full.
C4_DuplicateReported ==
    \A p \in Procs :
        (Done(p) /\ call_start[p].registered)
        => result[p] = "DuplicateRegistrationError"

\* C5 as stated: every call made after the event's end_time raises the
\* ended error (InvalidEventTimeError), whatever the capacity and attendees.
C5_AlwaysEventEnded ==
    \A p \in Procs :
        (Done(p) /\ call_start[p].ended)
        => result[p] = "InvalidEventTimeError"

\* C5 amended: a call made after the event's end_time never succeeds and
\* never inserts; it raises the ended error whenever the duplicate lookup
\* and the capacity check let it through, in particular when the email is
\* not registered and the event holds fewer than max_capacity attendees.
C5_EndedNeverRegisters ==
    \A p \in Procs :
        (Done(p) /\ call_start[p].ended)
        => /\ result[p] \in {"MultipleResultsFound",
                             "DuplicateRegistrationError",
                             "EventCapacityExceededError",
                             "InvalidEventTimeError"}
           /\ trace[p][Len(trace[p])] # "create_attendee"
           /\ (Len(trace[p]) > 3) = (result[p] = "InvalidEventTimeError")
           /\ ( /\ RowsWith(req[p].event_id, req[p].email) = {}
                /\ Cardinality(RowsOf(req[p].event_id))
                       < EventRow(req[p].event_id).max_capacity )
              => result[p] = "InvalidEventTimeError"

\* A call for a new email on an ended event that still has room and already
\* holds an attendee has been refused with the ended error.
C5_Witness ==
    \E p \in Procs :
        /\ Done(p)
        /\ call_start[p].ended
        /\ result[p] = "InvalidEventTimeError"
        /\ RowsOf(req[p].event_id) # {}
        /\ RowsWith(req[p].event_id, req[p].email) = {}

\* C6: a call for an event id that is not in the events table raises
\* EventNotFoundError after the event lookup alone: no duplicate lookup, no
\* count, no clock read and no insert were made.
C6_NotFoundFirst ==
    \A p \in Procs :
        (Done(p) /\ req[p].event_id \notin EventIds)
        => /\ result[p] = "EventNotFoundError"
           /\ trace[p] = <<"get_event_by_id">>
           /\ RowsOf(req[p].event_id) = {}

\* A call has been answered for an event id that the table does not hold.
C6_Witness ==
    \E p \in Procs :
        /\ Done(p)
        /\ req[p].event_id \notin EventIds
        /\ result[p] = "EventNotFoundError"

\* C7: of two calls for the same event and email that both reach the insert,
\* one succeeds and the other is reported as DuplicateRegistrationError.
C7_RaceLoserIsDuplicate ==
    \A p, q \in Procs :
        ( /\ p # q
          /\ Done(p) /\ Done(q)
          /\ req[p].event_id = req[q].event_id
          /\ req[p].email = req[q].email
          /\ Len(trace[p]) > 4 /\ Len(trace[q]) > 4 )
        => {result[p], result[q]} = {"ok", "DuplicateRegistrationError"}

\* A create_new_event call has just been answered.
Answered ==
    /\ create_response' # <<>>
    /\ (create_response' # create_response \/ events' # events)

\* The payload of the call just answered.
Payload == create_response'[1].event_data

Instant(dt) == dt.wall - dt.off

\* C8: a payload with start_time after now, start_time before end_time and
\* max_capacity >= 1 is accepted and adds exactly one event, whose times are
\* the payload's instants at offset UTC and whose name, location and
\* max_capacity are the payload's.
C8_ValidEventStored ==
    [][( /\ Answered
         /\ Instant(Payload.start_time) > clock
         /\ Instant(Payload.start_time) < Instant(Payload.end_time)
         /\ Payload.max_capacity >= 1 )
       => /\ create_response'[1].kind = "ok"
          /\ Len(events') = Len(events) + 1
          /\ SubSeq(events', 1, Len(events)) = events
          /\ LET e == events'[Len(events')]
             IN /\ e.start_time =
                       [wall |-> Instant(Payload.start_time), off |-> 0]
                /\ e.end_time =
                       [wall |-> Instant(Payload.end_time), off |-> 0]
                /\ e.name = Payload.name
                /\ e.location = Payload.location
                /\ e.max_capacity = Payload.max_capacity]_vars

\* An event given in a zone other than UTC has been stored.
C8_Witness ==
    /\ create_response # <<>>
    /\ create_response[1].kind = "ok"
    /\ create_response[1].event_data.start_time.off # 0
    /\ create_response[1].event_data.end_time.off = 0
    /\ Instant(create_response[1].event_data.start_time) > clock
    /\ Len(events) = 1

\* C9: a payload whose start_time is not before its end_time is refused
\* with InvalidEventTimeError, whatever its max_capacity, and nothing is
\* stored.
C9_StartNotBeforeEndRefused ==
    [][( /\ Answered
         /\ Instant(Payload.start_time) >= Instant(Payload.end_time) )
       => /\ create_response'[1].kind = "InvalidEventTimeError"
          /\ events' = events]_vars

\* A payload with equal start and end instants, a start in the future and
\* capacity 0 has been refused by the ordering check.
C9_Witness ==
    /\ create_response # <<>>
    /\ create_response[1].kind = "InvalidEventTimeError"
    /\ create_response[1].detail = "start not before end"
    /\ Instant(create_response[1].event_data.start_time)
           = Instant(create_response[1].event_data.end_time)
    /\ create_response[1].event_data.start_time
           # create_response[1].event_data.end_time
    /\ create_response[1].event_data.max_capacity = 0
    /\ events = <<>>

\* C10: a payload whose start instant is before now is refused with
\* InvalidEventTimeError and nothing is stored; a start instant equal to now
\* is not refused for lying in the past.
C10_PastStartRefused ==
    [][Answered
       => /\ Instant(Payload.start_time) < clock
             => /\ create_response'[1].kind = "InvalidEventTimeError"
                /\ create_response'[1].detail = "start in the past"
                /\ events' = events
          /\ Instant(Payload.start_time) = clock
             => create_response'[1].detail # "start in the past"]_vars

\* A payload whose wall clock does not read earlier than now but whose
\* instant is before now has been refused.
C10_Witness ==
    /\ create_response # <<>>
    /\ create_response[1].kind = "InvalidEventTimeError"
    /\ create_response[1].detail = "start in the past"
    /\ create_response[1].event_data.start_time.wall >= clock
    /\ Instant(create_response[1].event_data.start_time) < clock
    /\ events = <<>>

FirstFailure(r) ==
    IF r.event_id \notin EventIds THEN "EventNotFoundError"
    ELSE IF RowsWith(r.event_id, r.email) # {}
    THEN "DuplicateRegistrationError"
    ELSE IF Cardinality(RowsOf(r.event_id)) >= EventRow(r.event_id).max_capacity
    THEN "EventCapacityExceededError"
    ELSE IF EndInstant(EventRow(r.event_id)) < clock
    THEN "InvalidEventTimeError"
    ELSE "ok"

\* The store calls and clock reads a call has made when it ends with outcome.
ChecksRun(outcome) ==
    CASE outcome = "EventNotFoundError" -> <<"get_event_by_id">>
      [] outcome = "DuplicateRegistrationError" ->
             <<"get_event_by_id", "get_attendee_by_email_and_event">>
      [] outcome = "EventCapacityExceededError" ->
             <<"get_event_by_id", "get_attendee_by_email_and_event",
               "get_event_attendee_count">>
      [] outcome = "InvalidEventTimeError" ->
             <<"get_event_by_id", "get_attendee_by_email_and_event",
               "get_event_attendee_count", "now">>
      [] OTHER ->
             <<"get_event_by_id", "get_attendee_by_email_and_event",
               "get_event_attendee_count", "now", "create_attendee">>

\* C17: with one request at a time, the step that ends a call reports the
\* first failing check in the order existence, duplicate email, capacity,
\* ended (a new email on a full and ended event gets
\* EventCapacityExceededError); the call has made exactly the lookups up to
\* that check, in that order; and the ended check is made against the clock
\* as it reads at that last step, after the count.
C17_FirstFailingCheckReported ==
    [][\A p \in Procs :
          (pc[p] # "done" /\ pc'[p] = "done")
          => /\ result'[p] = FirstFailure(req[p])
             /\ trace'[p] = ChecksRun(result'[p])]_vars

\* A call for a new email made after the end of a full event has been
\* refused for capacity.
C17_Witness ==
    \E p \in Procs :
        /\ Done(p)
        /\ call_start[p].ended
        /\ ~call_start[p].registered
        /\ req[p].event_id \in EventIds
        /\ Cardinality(RowsOf(req[p].event_id))
               >= EventRow(req[p].event_id).max_capacity
        /\ result[p] = "EventCapacityExceededError"

\* The attendees table after the step, when request r has been inserted.
Inserted(r) ==
    /\ Len(attendees') = Len(attendees) + 1
    /\ SubSeq(attendees', 1, Len(attendees)) = attendees
    /\ attendees'[Len(attendees')].event_id = r.event_id
    /\ attendees'[Len(attendees')].name = r.name
    /\ attendees'[Len(attendees')].email = r.email

\* C18: no step of a register call changes the events table; the attendees
\* table is changed only by the step that ends a call with success, which
\* appends one row carrying the requested event id, name and email and
\* leaves every other row as it was; a call ending with one of the four
\* failures has written nothing.
C18_WritesOnlyOnSuccess ==
    [][\A p \in Procs :
          (pc'[p] # pc[p])
          => /\ events' = events
             /\ IF pc'[p] = "done" /\ result'[p] = "ok"
                THEN Inserted(req[p])
                ELSE attendees' = attendees]_vars

\* One call has succeeded and its row is in the table while another call
\* has been refused.
C18_Witness ==
    \E p, q \in Procs :
        /\ Done(p) /\ result[p] = "ok"
        /\ RowsWith(req[p].event_id, req[p].email) # {}
        /\ Done(q)
        /\ result[q] \in {"EventNotFoundError", "DuplicateRegistrationError",
                          "EventCapacityExceededError",
                          "InvalidEventTimeError"}

\* C16: a register request that the service answers with EventNotFoundError
\* gets status 404, with DuplicateRegistrationError or
\* EventCapacityExceededError 409, with InvalidEventTimeError (event ended)
\* 400, and with a created attendee 201; none of the four failures is
\* answered with a success status or left unhandled (500).
C16_StatusOfEachOutcome ==
    \A p \in Procs :
        Done(p) =>
            /\ result[p] = "EventNotFoundError"
                   => register_attendee(result[p]) = 404
            /\ result[p] \in {"DuplicateRegistrationError",
                              "EventCapacityExceededError"}
                   => register_attendee(result[p]) = 409
            /\ result[p] = "InvalidEventTimeError"
                   => register_attendee(result[p]) = 400
            /\ result[p] = "ok" => register_attendee(result[p]) = 201
            /\ result[p] \in ServiceExceptions
                   => register_attendee(result[p]) \in 400..499

\* Two requests have been answered with different failures of the service,
\* one of them the duplicate registration.
C16_Witness ==
    \E p, q \in Procs :
        /\ Done(p) /\ result[p] = "DuplicateRegistrationError"
        /\ Done(q) /\ result[q] \in ServiceExceptions
        /\ result[q] # result[p]

\* A read handler has just answered with operation op.
Read(op) ==
    /\ view_response' # view_response
    /\ view_response'[1].op = op

\* The events table holds the row at every index, before and after the step.
StoresUnchanged == events' = events /\ attendees' = attendees

\* C13: a get_event_by_id request with a target timezone leaves the events
\* table as it was and leaves the Event object it loaded equal to the stored
\* row; converting the converted object again into the same zone gives the
\* same response; and a zone name that is not known is refused (400) with
\* the table and the object unchanged.
C13_PureProjection ==
    [][( /\ Read("get_event_by_id")
         /\ view_response'[1].target_timezone # NoTimezone
         /\ view_response'[1].event_id \in EventIds )
       => LET r == view_response'[1]
              row == EventRow(r.event_id)
              once == convert_event_timezone(row, r.target_timezone)
              twice == convert_event_timezone(once.event, r.target_timezone)
          IN /\ StoresUnchanged
             /\ session_event' = <<row>>
             /\ twice.response = once.response
             /\ r.body = once.response
             /\ (r.target_timezone \notin DOMAIN tz_database)
                    = (r.status = 400)]_vars

\* C14: the list_events response holds exactly the stored events whose
\* end_time is not before the clock at the request (an event ending at that
\* very instant included), each once and with its stored fields, in
\* ascending order of start_time, and the request changes neither table.
C14_UpcomingListed ==
    [][Read("list_events")
       => LET body == view_response'[1].body
              upcoming == {id \in EventIds :
                               EndInstant(EventRow(id)) >= clock}
          IN /\ view_response'[1].status = 200
             /\ {body[i].id : i \in 1..Len(body)} = upcoming
             /\ Len(body) = Cardinality(upcoming)
             /\ \A i \in 1..Len(body) :
                    body[i] = EventResponse(EventRow(body[i].id))
             /\ \A i, j \in 1..Len(body) :
                    i < j => Instant(body[i].start_time)
                                 <= Instant(body[j].start_time)
             /\ StoresUnchanged]_vars

\* The list answered at some instant holds an event ending at that instant,
\* and an event that ended before it is stored and not listed.
C14_Witness ==
    /\ view_response # <<>>
    /\ view_response[1].op = "list_events"
    /\ \E i \in 1..Len(view_response[1].body) :
           Instant(view_response[1].body[i].end_time)
               = view_response[1].current_time_utc
    /\ \E id \in EventIds :
           /\ EndInstant(EventRow(id)) < view_response[1].current_time_utc
           /\ \A i \in 1..Len(view_response[1].body) :
                  view_response[1].body[i].id # id

\* The attendees of event id registered before instant t / not after t.
RegisteredBefore(id, t) ==
    {i \in RowsOf(id) : Instant(attendees[i].registered_at) < t}
RegisteredUpTo(id, t) ==
    {i \in RowsOf(id) : Instant(attendees[i].registered_at) <= t}

\* C15: for a stored event the attendee listing answers 200 with rows of
\* that event only, each once, in ascending order of registered_at, the
\* k-th row returned being the (skip + k)-th of the event in that order,
\* and min(limit, count - skip) rows in all (none when skip >= count); for
\* an event id not in the table it answers 404 with no list.
C15_AttendeePage ==
    [][Read("list_attendees_for_event")
       => LET r == view_response'[1]
              body == r.body
              count == Cardinality(RowsOf(r.event_id))
              rest == IF count > r.skip THEN count - r.skip ELSE 0
          IN /\ StoresUnchanged
             /\ IF r.event_id \notin EventIds
                THEN r.status = 404 /\ body = <<>>
                ELSE /\ r.status = 200
                     /\ Len(body) = IF r.limit < rest THEN r.limit ELSE rest
                     /\ \A k \in 1..Len(body) :
                            /\ body[k].event_id = r.event_id
                            /\ \E i \in RowsOf(r.event_id) :
                                   body[k] = attendees[i]
                            /\ Cardinality(RegisteredBefore(
                                   r.event_id,
                                   Instant(body[k].registered_at)))
                                   <= r.skip + k - 1
                            /\ Cardinality(RegisteredUpTo(
                                   r.event_id,
                                   Instant(body[k].registered_at)))
                                   >= r.skip + k
                     /\ \A k, l \in 1..Len(body) :
                            /\ body[k].id = body[l].id => k = l
                            /\ k < l => Instant(body[k].registered_at)
                                            <= Instant(body[l].registered_at)
               ]_vars

\* A page of one row after skipping one has been returned for an event
\* with two attendees registered at different instants, while another
\* event holds an attendee too.
C15_Witness ==
    /\ view_response # <<>>
    /\ view_response[1].op = "list_attendees_for_event"
    /\ view_response[1].status = 200
    /\ view_response[1].skip = 1
    /\ view_response[1].limit = 1
    /\ Len(view_response[1].body) = 1
    /\ Cardinality(RowsOf(view_response[1].event_id)) = 2
    /\ \A i \in RowsOf(view_response[1].event_id) :
           Instant(attendees[i].registered_at)
               <= Instant(view_response[1].body[1].registered_at)
    /\ \E i \in RowsOf(view_response[1].event_id) :
           Instant(attendees[i].registered_at)
               < Instant(view_response[1].body[1].registered_at)
    /\ \E i \in 1..Len(attendees) :
           attendees[i].event_id # view_response[1].event_id

\* C12: after every step each row of the events table has start_time before
\* end_time and max_capacity >= 1, and every row the table held before the
\* step is still there with the same fields, whichever request the step
\* belongs to (create, register, list, get with or without a timezone).
C12_EventsValidAndImmutable ==
    [][ /\ \A i \in 1..Len(events') :
               /\ Instant(events'[i].start_time) < Instant(events'[i].end_time)
               /\ events'[i].max_capacity >= 1
        /\ Len(events') >= Len(events)
        /\ \A i \in 1..Len(events) : events'[i] = events[i] ]_vars

\* An event is stored and has an attendee, and it has just been read with
\* its times converted to another zone.
C12_Witness ==
    /\ events # <<>>
    /\ attendees # <<>>
    /\ view_response # <<>>
    /\ view_response[1].op = "get_event_by_id"
    /\ view_response[1].status = 200
    /\ view_response[1].target_timezone = "Asia/Kolkata"
    /\ view_response[1].body[1].start_time # events[1].start_time

====
